---- MODULE Spec2Model ----
(***************************************************************************)
(* State-machine model of the OpenSearch repository facade                 *)
(* (src/opensearch.go): Search, Suggest, Insert, Update, Delete and the    *)
(* InsertBulk pipeline with its per-item callbacks.                        *)
(*                                                                         *)
(* One caller issues one facade call per behaviour.  The engine (transport *)
(* errors, status codes, response bodies, bulk item verdicts) is the       *)
(* environment and is chosen nondeterministically.  A Go panic is recorded *)
(* as outcome = "panic"; log.Fatalf as outcome = "fatal"; both end the     *)
(* process, so no action is enabled afterwards.                            *)
(***************************************************************************)
EXTENDS Integers, Sequences, FiniteSets

VARIABLES
    op,          \* facade method being executed, or "idle"
    pc,          \* position of the caller inside that method
    outcome,     \* "pending", "nil", an error message, "panic" or "fatal"
    logs,        \* set of entries written to r.logger
    argReq,      \* request map as the caller passed it
    argMeta,     \* pagination metadata as the caller passed it
    req,         \* *req, mutated in place by Search / Suggest
    meta,        \* *meta, mutated in place by calMetadata
    result,      \* *result, filled by the JSON decoder
    wire,        \* marshalled request body handed to the transport
    res,         \* engine response: status, body, whether the body is closed
    contentList, \* InsertBulk's input slice
    idx,         \* InsertBulk's loop position (next element to submit)
    offered,     \* items handed to indexer.Add, in call order
    items,       \* per document: where its bulk item is in the indexer
    indexer,     \* bulk indexer: closed flag and live counters
    stats        \* the snapshot returned by indexer.Stats()

vars == <<op, pc, outcome, logs, argReq, argMeta, req, meta, result, wire, res,
          contentList, idx, offered, items, indexer, stats>>

searchVars == <<argReq, argMeta, req, meta, result, wire, res>>
bulkVars == <<contentList, idx, offered, items, indexer, stats>>

----------------------------------------------------------------------------
(* Bounds of the model *)

MaxTotal == 3
MaxHits == 2
MaxPerPage == 3
MaxOffset == 2
MaxDocs == 2
\* JSON numbers are held in fixed point: the number x is the integer x * NumScale
NumScale == 2

(* Program constants *)

StatusOK == 200
StatusBadRequest == 400
SuggestSize == 10

\* status codes the engine answers with in the model (net/http never hands a
\* 1xx interim response to the caller, so none is below 200)
StatusCodes == {200, 201, 399, 400, 404, 500}

----------------------------------------------------------------------------
(* Request maps: map[string]interface{} *)

\* a value json.Marshal rejects (a channel, a func, ...)
Unmarshalable == -1
\* values the caller may have put in the map (none is an offset or page size
\* of the model)
CallerValues == {9}

\* encoding/json writes a map's keys in sorted order
KeyOrder == <<"from", "query", "size">>
Keys == {KeyOrder[i] : i \in 1..Len(KeyOrder)}

ValuesOf(k) == IF k = "query" THEN CallerValues \cup {Unmarshalable} ELSE CallerValues

Requests == UNION {{f \in [D -> CallerValues \cup {Unmarshalable}] :
                        \A k \in D : f[k] \in ValuesOf(k)} : D \in SUBSET Keys}

EmptyMap == [k \in {} |-> 0]

Metas == [offset : 0..MaxOffset, ItemsPerPage : 0..MaxPerPage,
          TotalItem : {0}, TotalPage : {0}, ItemCount : {0}]

NoMeta == [offset |-> 0, ItemsPerPage |-> 0, TotalItem |-> 0, TotalPage |-> 0, ItemCount |-> 0]

GetOffset(m) == m.offset

GetItemPerPage(m) == m.ItemsPerPage

\* (*req)[k] = v
SetKey(m, k, v) == [x \in DOMAIN m \cup {k} |-> IF x = k THEN v ELSE m[x]]

CanMarshal(m) == \A k \in DOMAIN m : m[k] # Unmarshalable

RECURSIVE MarshalFrom(_, _)
MarshalFrom(m, i) ==
    IF i > Len(KeyOrder) THEN <<>>
    ELSE IF KeyOrder[i] \in DOMAIN m
         THEN <<[key |-> KeyOrder[i], val |-> m[KeyOrder[i]]]>> \o MarshalFrom(m, i + 1)
         ELSE MarshalFrom(m, i + 1)

\* json.Marshal(req): the members of the object, keys sorted
Marshal(m) == MarshalFrom(m, 1)

----------------------------------------------------------------------------
(* Response envelopes: the decoded JSON body, restricted to the paths        *)
(* calMetadata reads: result["hits"], hits["total"], total["value"],         *)
(* hits["hits"].                                                             *)

Absent == [t |-> "absent", n |-> 0]
Other == [t |-> "other", n |-> 0]
Number(x) == [t |-> "number", n |-> x]
Array(len) == [t |-> "array", n |-> len]

JsonNumbers == {Number(x) : x \in 0..(MaxTotal * NumScale)}
JsonLists == {Array(l) : l \in 0..MaxHits}

Envelopes ==
    {[hits |-> h, total |-> "absent", value |-> Absent, list |-> Absent] :
        h \in {"absent", "other"}}
    \cup {[hits |-> "object", total |-> t, value |-> Absent, list |-> l] :
        t \in {"absent", "other"}, l \in JsonLists \cup {Absent, Other}}
    \cup {[hits |-> "object", total |-> "object", value |-> v, list |-> l] :
        v \in JsonNumbers \cup {Absent, Other}, l \in JsonLists \cup {Absent, Other}}

NoEnvelope == [hits |-> "absent", total |-> "absent", value |-> Absent, list |-> Absent]

\* a response body: JSON text that decodes into a map, or text that does not
Bodies == {[valid |-> TRUE, env |-> e] : e \in Envelopes}
          \cup {[valid |-> FALSE, env |-> NoEnvelope]}

NoRes == [got |-> FALSE, status |-> 0, body |-> [valid |-> FALSE, env |-> NoEnvelope],
          closed |-> FALSE]

\* int(x) of a non-negative float64: truncation
IntOfFloat(n) == n \div NumScale

\* calMetadata without the final "increment when not divisible" step
calMetadata_NoRoundUp(m, r) ==
    IF r.hits # "object" \/ r.total # "object" \/ r.value.t # "number"
    THEN [meta |-> m, panic |-> TRUE]
    ELSE IF m.ItemsPerPage = 0 \/ r.list.t # "array"
         THEN [meta |-> m, panic |-> TRUE]
         ELSE [meta |-> [m EXCEPT !.TotalItem = IntOfFloat(r.value.n),
                                  !.TotalPage = IntOfFloat(r.value.n) \div m.ItemsPerPage,
                                  !.ItemCount = r.list.n],
               panic |-> FALSE]

\* calMetadata: unchecked type assertions and an integer division; each of
\* them panics at its own line, after the assignments made before it
calMetadata(m, r) ==
    IF r.hits # "object" THEN [meta |-> m, panic |-> TRUE]
    ELSE IF r.total # "object" \/ r.value.t # "number" THEN [meta |-> m, panic |-> TRUE]
    ELSE LET totalItemValue == IntOfFloat(r.value.n)
             m1 == [m EXCEPT !.TotalItem = totalItemValue]
         IN  IF m.ItemsPerPage = 0 THEN [meta |-> m1, panic |-> TRUE]
             ELSE LET m2 == [m1 EXCEPT !.TotalPage = totalItemValue \div m.ItemsPerPage]
                  IN  IF r.list.t # "array" THEN [meta |-> m2, panic |-> TRUE]
                      ELSE LET m3 == [m2 EXCEPT !.ItemCount = r.list.n]
                           IN  [meta |-> IF totalItemValue % m.ItemsPerPage # 0
                                         THEN [m3 EXCEPT !.TotalPage = @ + 1]
                                         ELSE m3,
                                panic |-> FALSE]

----------------------------------------------------------------------------
(* Logging *)

Entry(lvl, msg, doc) == [lvl |-> lvl, msg |-> msg, doc |-> doc]

----------------------------------------------------------------------------

Init ==
    /\ op = "idle"
    /\ pc = "idle"
    /\ outcome = "pending"
    /\ logs = {}
    /\ argReq = EmptyMap
    /\ argMeta = NoMeta
    /\ req = EmptyMap
    /\ meta = NoMeta
    /\ result = NoEnvelope
    /\ wire = <<>>
    /\ res = NoRes
    /\ contentList = <<>>
    /\ idx = 1
    /\ offered = <<>>
    /\ items = <<>>
    /\ indexer = [open |-> FALSE, closed |-> FALSE, numFlushed |-> 0, numFailed |-> 0]
    /\ stats = [NumFlushed |-> 0, NumFailed |-> 0]

----------------------------------------------------------------------------
(* Search *)

\* InjectPaging that keeps a from / size the caller already supplied
InjectPaging_KeepCaller(r, m) ==
    LET withFrom == IF "from" \in DOMAIN r THEN r ELSE SetKey(r, "from", GetOffset(m))
    IN  IF "size" \in DOMAIN withFrom THEN withFrom
        ELSE SetKey(withFrom, "size", GetItemPerPage(m))

\* (*req)["from"] = meta.GetOffset(); (*req)["size"] = meta.GetItemPerPage()
InjectPaging(r, m) == SetKey(SetKey(r, "from", GetOffset(m)), "size", GetItemPerPage(m))

\* res.StatusCode > 200
QueryStatusIsError(s) == s > StatusOK

\* Search up to search.Do: mutate the request, marshal it, hand it to the transport
SearchCall(r, m) ==
    /\ op = "idle"
    /\ op' = "Search"
    /\ argReq' = r
    /\ argMeta' = m
    /\ meta' = m
    /\ req' = InjectPaging(r, m)
    /\ IF CanMarshal(req')
       THEN /\ wire' = Marshal(req')
            /\ pc' = "do"
            /\ UNCHANGED <<outcome, logs>>
       ELSE /\ wire' = <<>>
            /\ pc' = "done"
            /\ outcome' = "marshal error"
            /\ logs' = logs \cup {Entry("error", "marshal error", 0)}
    /\ UNCHANGED <<result, res>>
    /\ UNCHANGED bulkVars

\* search.Do returned err != nil (transport failure or the 5 s deadline)
SearchTransportError ==
    /\ op = "Search" /\ pc = "do"
    /\ pc' = "done"
    /\ outcome' = "transport error"
    /\ logs' = logs \cup {Entry("error", "transport error", 0)}
    /\ UNCHANGED searchVars
    /\ UNCHANGED <<op, bulkVars>>

\* search.Do returned a response: status check, deferred close, decode, calMetadata.
\* In the status branch err is nil, so err.Error() panics before the log call and
\* before `defer res.Body.Close()` is reached.
SearchResponse(s, b) ==
    /\ op = "Search" /\ pc = "do"
    /\ pc' = "done"
    /\ IF QueryStatusIsError(s)
       THEN /\ res' = [got |-> TRUE, status |-> s, body |-> b, closed |-> FALSE]
            /\ outcome' = "panic"
            /\ UNCHANGED <<result, meta>>
       ELSE /\ res' = [got |-> TRUE, status |-> s, body |-> b, closed |-> TRUE]
            /\ IF ~b.valid
               THEN /\ outcome' = "decode error"
                    /\ UNCHANGED <<result, meta>>
               ELSE /\ result' = b.env
                    /\ meta' = calMetadata(meta, result').meta
                    /\ outcome' = IF calMetadata(meta, result').panic THEN "panic" ELSE "nil"
    /\ UNCHANGED <<op, logs, argReq, argMeta, req, wire>>
    /\ UNCHANGED bulkVars

----------------------------------------------------------------------------
(* Suggest *)

\* Suggest up to search.Do: force size = 10, marshal
SuggestCall(r) ==
    /\ op = "idle"
    /\ op' = "Suggest"
    /\ argReq' = r
    /\ req' = SetKey(r, "size", SuggestSize)
    /\ IF CanMarshal(req')
       THEN /\ wire' = Marshal(req')
            /\ pc' = "do"
            /\ UNCHANGED <<outcome, logs>>
       ELSE /\ wire' = <<>>
            /\ pc' = "done"
            /\ outcome' = "marshal error"
            /\ logs' = logs \cup {Entry("error", "marshal error", 0)}
    /\ UNCHANGED <<argMeta, meta, result, res>>
    /\ UNCHANGED bulkVars

SuggestTransportError ==
    /\ op = "Suggest" /\ pc = "do"
    /\ pc' = "done"
    /\ outcome' = "transport error"
    /\ logs' = logs \cup {Entry("error", "transport error", 0)}
    /\ UNCHANGED searchVars
    /\ UNCHANGED <<op, bulkVars>>

SuggestResponse(s, b) ==
    /\ op = "Suggest" /\ pc = "do"
    /\ pc' = "done"
    /\ IF QueryStatusIsError(s)
       THEN /\ res' = [got |-> TRUE, status |-> s, body |-> b, closed |-> FALSE]
            /\ outcome' = "panic"
            /\ UNCHANGED <<result, logs>>
       ELSE /\ res' = [got |-> TRUE, status |-> s, body |-> b, closed |-> TRUE]
            /\ IF ~b.valid
               THEN /\ outcome' = "decode error"
                    /\ logs' = logs \cup {Entry("error", "decode error", 0)}
                    /\ UNCHANGED result
               ELSE /\ result' = b.env
                    /\ outcome' = "nil"
                    /\ UNCHANGED logs
    /\ UNCHANGED <<op, argReq, argMeta, req, meta, wire>>
    /\ UNCHANGED bulkVars

----------------------------------------------------------------------------
(* Insert, Update, Delete *)

\* res.StatusCode >= http.StatusBadRequest
WriteStatusIsError(s) == s >= StatusBadRequest

\* the part the three single-document methods share: a transport error is
\* logged and returned; an error status reaches logger.Error(err.Error(), ...)
\* with err == nil, which panics before the "... failed" error is returned
SingleDoc(name, doc, done, transportErr, s) ==
    /\ op = "idle"
    /\ op' = name
    /\ pc' = "done"
    /\ IF transportErr
       THEN /\ outcome' = "transport error"
            /\ logs' = logs \cup {Entry("error", "transport error", doc)}
            /\ UNCHANGED res
       ELSE /\ res' = [NoRes EXCEPT !.got = TRUE, !.status = s]
            /\ IF WriteStatusIsError(s)
               THEN /\ outcome' = "panic"
                    /\ UNCHANGED logs
               ELSE /\ outcome' = "nil"
                    /\ logs' = logs \cup {Entry("info", done, doc)}
    /\ UNCHANGED <<argReq, argMeta, req, meta, result, wire>>
    /\ UNCHANGED bulkVars

Insert(doc, transportErr, s) ==
    SingleDoc("Insert", doc, "successfully insert document", transportErr, s)

Update(doc, transportErr, s) ==
    SingleDoc("Update", doc, "successfully update document", transportErr, s)

Delete(doc, transportErr, s) ==
    SingleDoc("Delete", doc, "successfully delete document", transportErr, s)

----------------------------------------------------------------------------
(* InsertBulk *)

Docs == [id : 1..MaxDocs, marshalOk : BOOLEAN]

\* input slices: the i-th document carries identifier i
ContentLists == UNION {{l \in [1..n -> Docs] : \A i \in 1..n : l[i].id = i} : n \in 0..MaxDocs}

Item(st, errNil) == [st |-> st, errNil |-> errNil]

\* an item the indexer still owes work on: waiting for its batch, or inside
\* one of its callbacks
InFlight(i) == items[i].st \in {"queued", "onSuccess", "onFailure"}

\* opensearchutil.NewBulkIndexer, then the loop is entered; a creation error
\* goes to log.Fatalf, which exits the process
InsertBulkCall(list, created) ==
    /\ op = "idle"
    /\ op' = "InsertBulk"
    /\ contentList' = list
    /\ idx' = 1
    /\ IF created
       THEN /\ indexer' = [indexer EXCEPT !.open = TRUE]
            /\ items' = [i \in 1..Len(list) |-> Item("new", TRUE)]
            /\ pc' = "loop"
            /\ UNCHANGED outcome
       ELSE /\ pc' = "done"
            /\ outcome' = "fatal"
            /\ UNCHANGED <<indexer, items>>
    /\ UNCHANGED <<logs, offered, stats>>
    /\ UNCHANGED searchVars

\* json.Marshal(content.ToDoc()): nil bytes on error
BulkBody(doc) == IF doc.marshalOk THEN "doc" ELSE "empty"

\* insertBulk that returns after logging a marshal error, without calling Add
insertBulk_ReturnOnMarshalError(accepted) ==
    /\ op = "InsertBulk" /\ pc = "loop" /\ outcome = "pending"
    /\ idx <= Len(contentList)
    /\ LET content == contentList[idx]
       IN  IF ~content.marshalOk
           THEN /\ logs' = logs \cup {Entry("error", "marshal error", content.id)}
                /\ UNCHANGED <<offered, items>>
           ELSE /\ offered' = Append(offered, [id |-> content.id, body |-> BulkBody(content)])
                /\ items' = [items EXCEPT ![idx] = Item(IF accepted THEN "queued" ELSE "dropped", TRUE)]
                /\ logs' = logs \cup (IF accepted THEN {}
                                      ELSE {Entry("error", "add error", content.id)})
    /\ idx' = idx + 1
    /\ UNCHANGED <<op, pc, outcome, contentList, indexer, stats>>
    /\ UNCHANGED searchVars

\* one iteration of the loop, i.e. one call of insertBulk: a marshal error is
\* logged and the item is added all the same; indexer.Add either takes the item
\* (accepted) or returns an error, which is logged
insertBulk(accepted) ==
    /\ op = "InsertBulk" /\ pc = "loop" /\ outcome = "pending"
    /\ idx <= Len(contentList)
    /\ LET content == contentList[idx]
       IN  /\ offered' = Append(offered, [id |-> content.id, body |-> BulkBody(content)])
           /\ items' = [items EXCEPT ![idx] = Item(IF accepted THEN "queued" ELSE "dropped", TRUE)]
           /\ logs' = logs
                \cup (IF content.marshalOk THEN {}
                      ELSE {Entry("error", "marshal error", content.id)})
                \cup (IF accepted THEN {}
                      ELSE {Entry("error", "add error", content.id)})
    /\ idx' = idx + 1
    /\ UNCHANGED <<op, pc, outcome, contentList, indexer, stats>>
    /\ UNCHANGED searchVars

\* the indexer's worker got the engine's verdict for item i: the counter is
\* bumped and the item's callback is entered
\*   "ok"      item indexed                      -> OnSuccess
\*   "item"    engine rejected the item          -> OnFailure(res, nil)
\*   "write"   the item could not be encoded     -> OnFailure(res, err)
\*   "flush"   the whole batch request failed    -> counted, no callback
IndexerDispatch(i, verdict) ==
    /\ op = "InsertBulk" /\ outcome \in {"pending", "nil"}
    /\ i \in DOMAIN items
    /\ items[i].st = "queued"
    /\ items' = [items EXCEPT ![i] =
                    CASE verdict = "ok" -> Item("onSuccess", TRUE)
                      [] verdict = "item" -> Item("onFailure", TRUE)
                      [] verdict = "write" -> Item("onFailure", FALSE)
                      [] OTHER -> Item("lost", TRUE)]
    /\ indexer' = IF verdict = "ok"
                  THEN [indexer EXCEPT !.numFlushed = @ + 1]
                  ELSE [indexer EXCEPT !.numFailed = @ + 1]
    /\ UNCHANGED <<op, pc, outcome, logs, contentList, idx, offered, stats>>
    /\ UNCHANGED searchVars

\* the OnSuccess closure
OnSuccess(i) ==
    /\ op = "InsertBulk" /\ outcome \in {"pending", "nil"}
    /\ i \in DOMAIN items
    /\ items[i].st = "onSuccess"
    /\ items' = [items EXCEPT ![i].st = "succeeded"]
    /\ logs' = logs \cup {Entry("info", "successfully insert doc content", contentList[i].id)}
    /\ UNCHANGED <<op, pc, outcome, contentList, idx, offered, indexer, stats>>
    /\ UNCHANGED searchVars

\* the OnFailure closure: with err != nil it logs err; with err == nil the
\* else branch still evaluates err.Error(), a nil dereference on the worker's
\* goroutine, which takes the process down
OnFailure(i) ==
    /\ op = "InsertBulk" /\ outcome \in {"pending", "nil"}
    /\ i \in DOMAIN items
    /\ items[i].st = "onFailure"
    /\ IF items[i].errNil
       THEN /\ items' = [items EXCEPT ![i].st = "panicked"]
            /\ outcome' = "panic"
            /\ UNCHANGED logs
       ELSE /\ items' = [items EXCEPT ![i].st = "failed"]
            /\ logs' = logs \cup {Entry("error", "item error", contentList[i].id)}
            /\ UNCHANGED outcome
    /\ UNCHANGED <<op, pc, contentList, idx, offered, indexer, stats>>
    /\ UNCHANGED searchVars

\* indexer.Stats()
Stats == [NumFlushed |-> indexer.numFlushed, NumFailed |-> indexer.numFailed]

\* the report after Close: read the counters, log the summary, return nil
Report(closeErr) ==
    /\ pc' = "done"
    /\ outcome' = "nil"
    /\ stats' = Stats
    /\ logs' = logs
         \cup (IF closeErr THEN {Entry("error", "close error", 0)} ELSE {})
         \cup {IF Stats.NumFailed > 0
               THEN Entry("error", "inserting some document failed", 0)
               ELSE Entry("info", "successfully insert bulk document", 0)}

\* InsertBulk that reads the statistics right after the loop, without Close
InsertBulkClose_NoClose ==
    /\ op = "InsertBulk" /\ pc = "loop" /\ outcome = "pending"
    /\ idx > Len(contentList)
    /\ Report(FALSE)
    /\ UNCHANGED <<op, contentList, idx, offered, items, indexer>>
    /\ UNCHANGED searchVars

\* the loop is over: indexer.Close(context.Background()) is called
InsertBulkClose ==
    /\ op = "InsertBulk" /\ pc = "loop" /\ outcome = "pending"
    /\ idx > Len(contentList)
    /\ pc' = "closing"
    /\ indexer' = [indexer EXCEPT !.closed = TRUE]
    /\ UNCHANGED <<op, outcome, logs, contentList, idx, offered, items, stats>>
    /\ UNCHANGED searchVars

\* Close returns once the queue is drained and the workers are done
CloseReturns == indexer.closed /\ \A i \in DOMAIN items : ~InFlight(i)

\* Close has returned (closeErr: with an error, which is only logged)
InsertBulkReport(closeErr) ==
    /\ op = "InsertBulk" /\ pc = "closing" /\ outcome = "pending"
    /\ CloseReturns
    /\ Report(closeErr)
    /\ UNCHANGED <<op, contentList, idx, offered, items, indexer>>
    /\ UNCHANGED searchVars

----------------------------------------------------------------------------

Verdicts == {"ok", "item", "write", "flush"}

Next ==
    \/ \E r \in Requests, m \in Metas : SearchCall(r, m)
    \/ SearchTransportError
    \/ \E s \in StatusCodes, b \in Bodies : SearchResponse(s, b)
    \/ \E r \in Requests : SuggestCall(r)
    \/ SuggestTransportError
    \/ \E s \in StatusCodes, b \in Bodies : SuggestResponse(s, b)
    \/ \E d \in 1..MaxDocs, e \in BOOLEAN, s \in StatusCodes : Insert(d, e, s)
    \/ \E d \in 1..MaxDocs, e \in BOOLEAN, s \in StatusCodes : Update(d, e, s)
    \/ \E d \in 1..MaxDocs, e \in BOOLEAN, s \in StatusCodes : Delete(d, e, s)
    \/ \E l \in ContentLists, c \in BOOLEAN : InsertBulkCall(l, c)
    \/ \E a \in BOOLEAN : insertBulk(a)
    \/ \E i \in 1..MaxDocs, v \in Verdicts : IndexerDispatch(i, v)
    \/ \E i \in 1..MaxDocs : OnSuccess(i)
    \/ \E i \in 1..MaxDocs : OnFailure(i)
    \/ InsertBulkClose
    \/ \E e \in BOOLEAN : InsertBulkReport(e)

Spec == Init /\ [][Next]_vars

----------------------------------------------------------------------------
(* Properties *)

QueryOps == {"Search", "Suggest"}
WriteOps == {"Insert", "Update", "Delete"}

\* the envelope has hits, hits.total.value and hits.hits, each of the right shape
ShapeOK(e) ==
    e.hits = "object" /\ e.total = "object" /\ e.value.t = "number" /\ e.list.t = "array"

\* ... and the total is a whole number
WellFormed(e) == ShapeOK(e) /\ e.value.n % NumScale = 0

\* the whole number a well-formed total stands for
TotalOf(e) == CHOOSE t \in 0..(MaxTotal * NumScale) : t * NumScale = e.value.n

\* ceil(t / p) for t >= 0, p > 0: the least k with k * p >= t
CeilDiv(t, p) == CHOOSE k \in 0..t : k * p >= t /\ \A j \in 0..t : j * p >= t => k <= j

\* the engine's verdict for item i was a per-item rejection (no error value)
EngineRejected(i) == items[i].st \in {"onFailure", "failed", "panicked"} /\ items[i].errNil

\* the engine's verdict for item i was success
EngineIndexed(i) == items[i].st \in {"onSuccess", "succeeded"}

\* C1: for a list of N documents all taken by the indexer, of which the engine
\* rejects K, InsertBulk does not end abnormally, and once it has returned it
\* returned nil with failed-count = K, and flushed-count = N when K = 0.
C1_BulkBestEffort ==
    (/\ op = "InsertBulk"
     /\ indexer.open
     /\ idx > Len(contentList)
     /\ \A i \in DOMAIN items : EngineRejected(i) \/ EngineIndexed(i))
    => LET N == Len(contentList)
           K == Cardinality({i \in DOMAIN items : EngineRejected(i)})
       IN  /\ outcome \in {"pending", "nil"}
           /\ pc = "done" => /\ outcome = "nil"
                             /\ stats.NumFailed = K
                             /\ K = 0 => stats.NumFlushed = N

\* C2: once InsertBulk has read the counters and returned, the indexer is
\* closed, no item is queued or inside a callback, and the counters it read
\* are the indexer's counters (nothing moved after the read).
C2_BulkSynchronous ==
    (op = "InsertBulk" /\ pc = "done" /\ outcome # "fatal")
    => /\ indexer.closed
       /\ \A i \in DOMAIN items : ~InFlight(i)
       /\ stats = Stats

C2_Witness ==
    /\ op = "InsertBulk" /\ pc = "done" /\ outcome = "nil"
    /\ \E i, j \in DOMAIN items : items[i].st = "succeeded" /\ items[j].st = "failed"

FailedMessage(o) ==
    CASE o = "Insert" -> "insert failed"
      [] o = "Update" -> "update failed"
      [] o = "Delete" -> "delete failed"
      [] OTHER -> "unknown"

\* C3: Insert, Update and Delete return "<operation> failed" when the engine
\* answers with a status >= 400 and return nil when it answers 200.
C3_WriteStatus ==
    (op \in WriteOps /\ pc = "done" /\ res.got)
    => /\ res.status >= 400 => outcome = FailedMessage(op)
       /\ res.status = 200 => outcome = "nil"

\* C4: Search and Suggest return the "Invalid query" error for every response
\* whose status is not exactly 200.
C4_QueryStatus ==
    (op \in QueryOps /\ pc = "done" /\ res.got /\ res.status # 200)
    => outcome = "Invalid query"

\* C5: for itemsPerPage > 0 and a well-formed envelope with total t and h hit
\* entries, Search succeeds with totalItem = t, totalPage = ceil(t / itemsPerPage)
\* and itemCount = h, and the envelope handed back is the decoded one.
C5_Metadata ==
    (/\ op = "Search" /\ pc = "done" /\ res.got /\ res.status = 200
     /\ res.body.valid /\ WellFormed(res.body.env)
     /\ argMeta.ItemsPerPage > 0)
    => /\ outcome = "nil"
       /\ meta.TotalItem = TotalOf(res.body.env)
       /\ meta.TotalPage = CeilDiv(TotalOf(res.body.env), argMeta.ItemsPerPage)
       /\ meta.ItemCount = res.body.env.list.n
       /\ meta.ItemsPerPage = argMeta.ItemsPerPage
       /\ result = res.body.env

C5_Witness ==
    /\ op = "Search" /\ pc = "done" /\ outcome = "nil" /\ res.status = 200
    /\ WellFormed(res.body.env)
    /\ meta.ItemsPerPage > 1
    /\ meta.TotalItem > meta.ItemsPerPage
    /\ meta.TotalItem % meta.ItemsPerPage # 0
    /\ meta.ItemCount # meta.ItemsPerPage

\* C6: when the decoded envelope lacks hits, hits.total.value or hits.hits (or
\* one has the wrong shape), Search returns a MalformedResponse error.
C6_Malformed ==
    (/\ op = "Search" /\ pc = "done" /\ res.got /\ res.status = 200
     /\ res.body.valid /\ ~ShapeOK(res.body.env))
    => outcome = "MalformedResponse"

\* C7: whenever Search or Suggest is over after the engine returned a
\* response, the response body has been closed.
C7_BodyClosed ==
    (op \in QueryOps /\ pc = "done" /\ res.got) => res.closed

\* C8: the request map and the body handed to the transport carry
\* from = offset and size = itemsPerPage, and every other key of the caller's
\* map with the caller's value; nothing else is added or removed.
C8_PagingInjected ==
    op = "Search"
    => /\ DOMAIN req = DOMAIN argReq \cup {"from", "size"}
       /\ req["from"] = GetOffset(argMeta)
       /\ req["size"] = GetItemPerPage(argMeta)
       /\ \A k \in DOMAIN argReq \ {"from", "size"} : req[k] = argReq[k]
       /\ pc = "do" => /\ {wire[j].key : j \in 1..Len(wire)} = DOMAIN req
                       /\ Len(wire) = Cardinality(DOMAIN req)
                       /\ \A j \in 1..Len(wire) : wire[j].val = req[wire[j].key]

C8_Witness ==
    /\ op = "Search" /\ pc = "do"
    /\ {"from", "size", "query"} \subseteq DOMAIN argReq
    /\ argReq["from"] # GetOffset(argMeta)
    /\ argReq["size"] # GetItemPerPage(argMeta)
    /\ GetOffset(argMeta) # GetItemPerPage(argMeta)

\* C9: the failure callback of every failed bulk item returns normally, having
\* logged the failure, whether or not an error value was passed to it.
C9_OnFailureReturns ==
    \A i \in DOMAIN items :
        /\ items[i].st # "panicked"
        /\ items[i].st = "failed" => Entry("error", "item error", contentList[i].id) \in logs

\* C10: a serialization failure or a rejected Add is only logged: each document
\* of the list is handed to indexer.Add exactly once, in order, with an empty
\* body when its serialization failed; neither failure ends the call; and a
\* call that returned has closed the indexer and logged its report.
C10_EveryDocOffered ==
    op = "InsertBulk"
    => /\ pc = "loop" => Len(offered) = idx - 1
       /\ pc \in {"closing", "done"} /\ outcome # "fatal" => Len(offered) = Len(contentList)
       /\ \A i \in 1..Len(offered) :
            /\ offered[i].id = contentList[i].id
            /\ offered[i].body = "empty" <=> ~contentList[i].marshalOk
            /\ ~contentList[i].marshalOk
                 => Entry("error", "marshal error", contentList[i].id) \in logs
            /\ items[i].st = "dropped"
                 => Entry("error", "add error", contentList[i].id) \in logs
       /\ outcome = "panic" => \E i \in DOMAIN items : items[i].st = "panicked"
       /\ outcome = "fatal" => offered = <<>>
       /\ pc = "done" /\ outcome = "nil"
            => /\ indexer.closed
               /\ \E e \in logs : e.msg \in {"inserting some document failed",
                                             "successfully insert bulk document"}

C10_Witness ==
    /\ op = "InsertBulk" /\ pc = "done" /\ outcome = "nil"
    /\ \E i, j, k \in DOMAIN items :
        /\ ~contentList[i].marshalOk
        /\ items[j].st = "dropped"
        /\ i < k /\ j < k /\ items[k].st = "succeeded"

====
